---- MODULE Spec2Model ----
(***************************************************************************)
(* A model of the Novatek MP4 GPS extractor (src/nvtk_mp42gpx.py) and of   *)
(* the frame tagger that interpolates between its samples                  *)
(* (src/extract_photos.py).                                                *)
(*                                                                         *)
(* Three specifications share the module:                                  *)
(*   Spec      extract_gpx walking one input file;                         *)
(*   LerpSpec  lerp_point applied to two samples and a ratio;              *)
(*   MainSpec  the per-file part of main: the skip filters and the tagging *)
(*             loop.                                                       *)
(*                                                                         *)
(* A file is a sequence of 4-byte words, each word a tuple of four bytes,  *)
(* so the big-endian and little-endian readings of the same bytes differ   *)
(* as they do for struct.unpack.  Every size and offset the walker meets   *)
(* inside a file of the model is a multiple of 4 (AlignedInv), and the     *)
(* first and last byte of every word are below 128, so that both readings  *)
(* of a word fit TLC's 32-bit integers.                                    *)
(*                                                                         *)
(* Python floats are modelled by exact rationals [n, d] (d > 0, lowest     *)
(* terms): binary rounding of the float arithmetic is not modelled.        *)
(***************************************************************************)
EXTENDS Integers, Sequences, FiniteSets, TLC

\* Number of index entries of the largest well-formed file the walker is given.
MaxEntries == 2

\* Largest --fps (interpolated frames per track slot) given to the tagger.
MaxFps == 3

\* Longest track given to the tagging loop of main.
MaxSlots == 3

\* get_gps_atom's sanity ceiling on an index entry's byte_size.
MaxAtomSize == 100000

Min(a, b) == IF a < b THEN a ELSE b

Abs(a) == IF a < 0 THEN -a ELSE a

RECURSIVE GCD(_, _)
GCD(a, b) == IF b = 0 THEN a ELSE GCD(b, a % b)

\* The rational n/d in lowest terms with a positive denominator.
Rat(n, d) ==
    LET g == GCD(Abs(n), Abs(d))
        s == IF d < 0 THEN -1 ELSE 1
    IN  [n |-> s * (n \div g), d |-> s * (d \div g)]

RECURSIVE Pow2(_)
Pow2(k) == IF k = 0 THEN 1 ELSE 2 * Pow2(k - 1)

(***************************************************************************)
(* Bytes and words.                                                        *)
(***************************************************************************)
\* struct '>I': the big-endian unsigned reading of a word.
BE32(w) == w[1] * 16777216 + w[2] * 65536 + w[3] * 256 + w[4]

\* struct '<I': the little-endian unsigned reading of a word.
LE32(w) == w[4] * 16777216 + w[3] * 65536 + w[2] * 256 + w[1]

\* struct '<f': the IEEE-754 single held by a word, for zero and for normal
\* numbers whose value fits TLC's 32-bit integers.
F32(w) ==
    LET sign == IF w[4] \div 128 = 1 THEN -1 ELSE 1
        exp  == (w[4] % 128) * 2 + w[3] \div 128
        frac == (w[3] % 128) * 65536 + w[2] * 256 + w[1]
        m    == 8388608 + frac
    IN  CASE exp = 0 /\ frac = 0 -> [n |-> 0, d |-> 1]
          [] exp >= 150 /\ exp <= 156 -> [n |-> sign * m * Pow2(exp - 150), d |-> 1]
          [] exp >= 120 /\ exp < 150 -> Rat(sign * m, Pow2(150 - exp))

\* The big-endian word holding n (n < 2^24).
W(n) == <<0, n \div 65536, (n \div 256) % 256, n % 256>>

\* The little-endian word holding n (n < 2^24).
WLE(n) == <<n % 256, (n \div 256) % 256, n \div 65536, 0>>

TagMoov == <<109, 111, 111, 118>>

TagGps == <<103, 112, 115, 32>>

TagFree == <<102, 114, 101, 101>>

MagicGPS == <<71, 80, 83, 32>>

TagFtyp == <<102, 116, 121, 112>>

TagMvhd == <<109, 118, 104, 100>>

\* get_atom_info's type for a short read: the empty string.
NoType == <<>>

\* The slot of a rejected record (Python's None) and of a decoded sample.
None == <<>>

Some(p) == <<p>>

(***************************************************************************)
(* File access: f.seek(off) followed by f.read(nbytes).                    *)
(***************************************************************************)
FileBytes(f) == 4 * Len(f)

Read(f, off, nbytes) ==
    IF off >= FileBytes(f) THEN <<>>
    ELSE SubSeq(f, off \div 4 + 1, Min(off + nbytes, FileBytes(f)) \div 4)

(***************************************************************************)
(* nvtk_mp42gpx: the decoders.                                             *)
(***************************************************************************)
\* get_atom_info: struct.error on fewer than 8 bytes gives (0, '').
get_atom_info(eight_bytes) ==
    IF Len(eight_bytes) < 2 THEN [size |-> 0, type |-> NoType]
    ELSE [size |-> BE32(eight_bytes[1]), type |-> eight_bytes[2]]

\* get_gps_atom_info does not catch struct.error.
get_gps_atom_info_raises(eight_bytes) == Len(eight_bytes) < 2

get_gps_atom_info(eight_bytes) ==
    [pos |-> BE32(eight_bytes[1]), size |-> BE32(eight_bytes[2])]

IsLeap(y) == y % 4 = 0 /\ (y % 100 # 0 \/ y % 400 = 0)

DaysInMonth(y, m) ==
    IF m = 2 THEN (IF IsLeap(y) THEN 29 ELSE 28)
    ELSE IF m \in {4, 6, 9, 11} THEN 30 ELSE 31

\* datetime.datetime(...) raises ValueError outside these ranges.
fix_time_ok(hour, minute, second, year, month, day) ==
    /\ 2000 + year <= 9999
    /\ month >= 1 /\ month <= 12
    /\ day >= 1 /\ day <= DaysInMonth(2000 + year, month)
    /\ hour <= 23 /\ minute <= 59 /\ second <= 59

\* Leap years in 2000..y-1.
LeapsBefore(y) == ((y - 1) \div 4 - (y - 1) \div 100 + (y - 1) \div 400) - 484

RECURSIVE DaysBeforeMonth(_, _)
DaysBeforeMonth(y, m) ==
    IF m = 1 THEN 0 ELSE DaysBeforeMonth(y, m - 1) + DaysInMonth(y, m - 1)

\* A datetime is modelled by its distance from 2000-01-01 00:00:00 of its own
\* time zone: whole seconds and microseconds.
fix_time(hour, minute, second, year, month, day) ==
    LET y    == 2000 + year
        days == 365 * (y - 2000) + LeapsBefore(y) + DaysBeforeMonth(y, month) + (day - 1)
    IN  [sec |-> ((days * 24 + hour) * 60 + minute) * 60 + second, us |-> 0]

\* DDDmm.mmmm to decimal degrees; hemisphere is the byte b'S', b'W', ...
fix_coordinates(hemisphere, coordinate) ==
    LET n       == coordinate.n
        d       == coordinate.d
        minutes == n % (100 * d)
        degrees == n - minutes
        c       == Rat(3 * degrees + 5 * minutes, 300 * d)
    IN  IF hemisphere = 83 \/ hemisphere = 87 THEN [n |-> -c.n, d |-> c.d] ELSE c

\* 1 knot = 0.514444 m/s
fix_speed(speed) == Rat(speed.n * 514444, speed.d * 1000000)

\* get_gps_atom(gps_atom_info, f, tz): the slot appended for one index entry.
get_gps_atom(info, f) ==
    IF info.size > MaxAtomSize THEN None
    ELSE
      LET data == Read(f, info.pos, info.size) IN
      IF Len(data) < 3 THEN None
      ELSE IF info.size # BE32(data[1]) \/ data[2] # TagFree \/ data[3] # MagicGPS
      THEN None
      ELSE IF Len(data) < 15 THEN None
      ELSE
        LET hour   == LE32(data[5])
            minute == LE32(data[6])
            second == LE32(data[7])
            year   == LE32(data[8])
            month  == LE32(data[9])
            day    == LE32(data[10])
            active == data[11][1]
            lat_b  == data[11][2]
            lon_b  == data[11][3]
        IN  IF ~fix_time_ok(hour, minute, second, year, month, day) THEN None
            ELSE IF active # 65 THEN None
            ELSE Some([lat     |-> fix_coordinates(lat_b, F32(data[12])),
                       lon     |-> fix_coordinates(lon_b, F32(data[13])),
                       time    |-> fix_time(hour, minute, second, year, month, day),
                       speed   |-> fix_speed(F32(data[14])),
                       bearing |-> F32(data[15])])

(***************************************************************************)
(* The input files of Spec.                                                *)
(***************************************************************************)
RecordSize == 60

GpsBoxSize(n) == 16 + 8 * n

RecordPos(n, i) == 24 + GpsBoxSize(n) + RecordSize * i

\* A 60-byte record as the camera writes it: a 'free' atom with the GPS magic,
\* four bytes of padding, six little-endian integers, four flag bytes, four floats.
RecordWords(i) ==
    <<W(RecordSize), TagFree, MagicGPS, W(0),
      WLE(12), WLE(30), WLE(i), WLE(20), WLE(2), WLE(29),
      IF i % 2 = 0 THEN <<65, 78, 69, 0>> ELSE <<65, 83, 87, 0>>,
      IF i % 2 = 0 THEN <<0, 32, 105, 69>> ELSE <<0, 48, 104, 69>>,
      <<0, 128, 17, 67>>,
      <<0, 0, 32, 65>>,
      IF i % 2 = 0 THEN <<0, 0, 175, 67>> ELSE <<0, 0, 32, 65>> >>

RECURSIVE IndexWords(_, _)
IndexWords(n, i) ==
    IF i = n THEN <<>> ELSE <<W(RecordPos(n, i)), W(RecordSize)>> \o IndexWords(n, i + 1)

RECURSIVE AllRecordWords(_, _)
AllRecordWords(n, i) ==
    IF i = n THEN <<>> ELSE RecordWords(i) \o AllRecordWords(n, i + 1)

\* ftyp; moov holding mvhd and the 'gps ' box with n index entries; n records.
BaseFile(n) ==
    <<W(8), TagFtyp,
      W(16 + GpsBoxSize(n)), TagMoov,
      W(8), TagMvhd,
      W(GpsBoxSize(n)), TagGps, W(0), W(n)>>
    \o IndexWords(n, 0) \o AllRecordWords(n, 0)

\* Word positions (1-based) of a record's four floats.
IsFloatWord(n, p) ==
    LET first == RecordPos(n, 0) \div 4 + 1 IN
    p >= first /\ (p - first) % 15 >= 11

\* Words a corruption may put in place of any word that is not a float.
MutWords ==
    { W(0), W(4), W(8), W(24), W(RecordSize), W(100100), TagMoov, TagGps,
      WLE(13), WLE(30), <<86, 78, 69, 0>> }

Mutations(n) ==
    { [BaseFile(n) EXCEPT ![p] = v] :
        p \in { q \in 1..Len(BaseFile(n)) : ~IsFloatWord(n, q) }, v \in MutWords }

Truncations(n) == { SubSeq(BaseFile(n), 1, k) : k \in 0..Len(BaseFile(n)) }

Files == UNION { Mutations(n) \cup Truncations(n) : n \in 0..MaxEntries }

(***************************************************************************)
(* State.                                                                  *)
(***************************************************************************)
VARIABLES
    \* extract_gpx
    file,            \* the words of in_file
    fpos,            \* f.tell()
    offset, atom_size,
    sub_offset, sub_atom_size,
    gps_offset,
    gps_data,        \* the track: one slot per index entry read
    pc,              \* "top", "sub", "gps", "done" (returned), "raised"
    \* history of the walk, read by the properties only
    gps_base,        \* Len(gps_data) when the current 'gps ' box was entered
    gps_total,       \* index entries lying in the extents of the boxes entered
    zero_hdr,        \* a size-0 header was read in the current moov region
    read_after_zero, \* ... and a further header was read from that region
    bad_hdr,         \* a structurally invalid header was read in the region
    read_after_bad,  \* ... and a further header was read from that region
    idx_outside,     \* an index entry was read past the end of the moov region
    \* lerp_point and set_gps_location applied to one pair of samples
    lp_pt1, lp_pt2,  \* the arguments pt1 and pt2
    lp_step, lp_fps, \* ratio = interpolation_step / fps
    lp_out,          \* the point returned
    lp_dir,          \* the GPSImgDirection entry written for lp_out
    lp_pc,           \* "call", "done", "tagged"
    \* main, for one video file
    m_gps_data,      \* the track extract_gpx returned
    m_fps,           \* args.fps
    m_pc,            \* "select", "skip_no_data", "skip_dark", "skip_no_movement",
                     \* "loop", "frames", "done"
    latest_point,
    current_frame,
    prev_gps_point,
    gps_index,
    interpolation_step,
    last_frame       \* the frame handled last: number, slot, step, point, tagged

wvars == <<file, fpos, offset, atom_size, sub_offset, sub_atom_size, gps_offset,
           gps_data, pc, gps_base, gps_total, zero_hdr, read_after_zero,
           bad_hdr, read_after_bad, idx_outside>>

lvars == <<lp_pt1, lp_pt2, lp_step, lp_fps, lp_out, lp_dir, lp_pc>>

mvars == <<m_gps_data, m_fps, m_pc, latest_point, current_frame, prev_gps_point,
           gps_index, interpolation_step, last_frame>>

vars == <<wvars, lvars, mvars>>

\* The variables of the specifications that are not running.
WalkIdle ==
    /\ file = <<>> /\ fpos = 0 /\ offset = 0 /\ atom_size = 0 /\ sub_offset = 0
    /\ sub_atom_size = 0 /\ gps_offset = 0 /\ gps_data = <<>> /\ pc = "idle"
    /\ gps_base = 0 /\ gps_total = 0 /\ zero_hdr = FALSE /\ read_after_zero = FALSE
    /\ bad_hdr = FALSE /\ read_after_bad = FALSE /\ idx_outside = FALSE

LerpIdle ==
    /\ lp_pt1 = <<>> /\ lp_pt2 = <<>> /\ lp_step = 0 /\ lp_fps = 1 /\ lp_out = <<>>
    /\ lp_dir = <<>> /\ lp_pc = "idle"

MainIdle ==
    /\ m_gps_data = <<>> /\ m_fps = 1 /\ m_pc = "idle" /\ latest_point = <<>>
    /\ current_frame = 0 /\ prev_gps_point = <<>> /\ gps_index = 0
    /\ interpolation_step = 0 /\ last_frame = <<>>

(***************************************************************************)
(* extract_gpx.                                                            *)
(***************************************************************************)
\* Index entries whose first byte lies in a 'gps ' box of the given size.
EntriesInExtent(size) == IF size > 16 THEN (size - 16 + 7) \div 8 ELSE 0

\* The end of the moov region being walked.
MoovEnd == offset + atom_size

\* Spec section 4.1: a size below the header's own 8 bytes, or past the region.
StructuralError(size, start, end) == size # 0 /\ (size < 8 \/ start + size > end)

WalkInit(f) ==
    /\ file = f
    /\ fpos = 0
    /\ offset = 0
    /\ atom_size = 0
    /\ sub_offset = 0
    /\ sub_atom_size = 0
    /\ gps_offset = 0
    /\ gps_data = <<>>
    /\ pc = "top"
    /\ gps_base = 0
    /\ gps_total = 0
    /\ zero_hdr = FALSE
    /\ read_after_zero = FALSE
    /\ bad_hdr = FALSE
    /\ read_after_bad = FALSE
    /\ idx_outside = FALSE

Init == (\E f \in Files : WalkInit(f)) /\ LerpIdle /\ MainIdle

\* Lines 122-129 and 147-148: one pass of the top-level loop up to the moov test.
TopRead ==
    /\ UNCHANGED <<lvars, mvars>>
    /\ pc = "top"
    /\ LET eight == Read(file, fpos, 8)
           hdr   == get_atom_info(eight)
       IN  IF hdr.size = 0 THEN
               /\ pc' = "done"
               /\ fpos' = fpos + 4 * Len(eight)
               /\ UNCHANGED <<offset, atom_size, sub_offset, zero_hdr,
                              read_after_zero, bad_hdr, read_after_bad>>
           ELSE IF hdr.type = TagMoov THEN
               /\ pc' = "sub"
               /\ atom_size' = hdr.size
               /\ sub_offset' = offset + 8
               /\ fpos' = fpos + 4 * Len(eight)
               /\ zero_hdr' = FALSE
               /\ read_after_zero' = FALSE
               /\ bad_hdr' = FALSE
               /\ read_after_bad' = FALSE
               /\ UNCHANGED offset
           ELSE
               /\ pc' = "top"
               /\ atom_size' = hdr.size
               /\ offset' = offset + hdr.size
               /\ fpos' = offset + hdr.size
               /\ UNCHANGED <<sub_offset, zero_hdr, read_after_zero, bad_hdr,
                              read_after_bad>>
    /\ UNCHANGED <<file, sub_atom_size, gps_offset, gps_data, gps_base, gps_total,
                   idx_outside>>

\* Lines 131-137 and 144-145: one pass of the loop over moov's children, up to
\* the index loop when the child is the 'gps ' box.
SubRead ==
    /\ UNCHANGED <<lvars, mvars>>
    /\ pc = "sub"
    /\ sub_offset < MoovEnd
    /\ LET eight == Read(file, fpos, 8)
           hdr   == get_atom_info(eight)
       IN  /\ sub_atom_size' = hdr.size
           /\ read_after_zero' = (read_after_zero \/ zero_hdr)
           /\ zero_hdr' = (zero_hdr \/ hdr.size = 0)
           /\ read_after_bad' = (read_after_bad \/ bad_hdr)
           /\ bad_hdr' = (bad_hdr \/ StructuralError(hdr.size, sub_offset, MoovEnd))
           /\ IF hdr.type = TagGps THEN
                  /\ pc' = "gps"
                  /\ gps_offset' = 16 + sub_offset
                  /\ fpos' = 16 + sub_offset
                  /\ gps_base' = Len(gps_data)
                  /\ gps_total' = gps_total + EntriesInExtent(hdr.size)
                  /\ UNCHANGED sub_offset
              ELSE
                  /\ pc' = "sub"
                  /\ sub_offset' = sub_offset + hdr.size
                  /\ fpos' = sub_offset + hdr.size
                  /\ UNCHANGED <<gps_offset, gps_base, gps_total>>
    /\ UNCHANGED <<file, offset, atom_size, gps_data, idx_outside>>

\* Lines 131, 147-148: the loop over moov's children ends.
MoovExit ==
    /\ UNCHANGED <<lvars, mvars>>
    /\ pc = "sub"
    /\ ~(sub_offset < MoovEnd)
    /\ pc' = "top"
    /\ offset' = offset + atom_size
    /\ fpos' = offset + atom_size
    /\ UNCHANGED <<file, atom_size, sub_offset, sub_atom_size, gps_offset, gps_data,
                   gps_base, gps_total, zero_hdr, read_after_zero, bad_hdr,
                   read_after_bad, idx_outside>>

\* GpsEntry with a slot appended only for a decoded sample: rejected entries
\* are dropped from the track.
GpsEntryDropNone ==
    /\ UNCHANGED <<lvars, mvars>>
    /\ pc = "gps"
    /\ gps_offset < sub_offset + sub_atom_size
    /\ LET eight == Read(file, fpos, 8) IN
       /\ ~get_gps_atom_info_raises(eight)
       /\ LET slot == get_gps_atom(get_gps_atom_info(eight), file) IN
          gps_data' = IF slot = None THEN gps_data ELSE Append(gps_data, slot)
    /\ idx_outside' = (idx_outside \/ gps_offset + 8 > MoovEnd)
    /\ gps_offset' = gps_offset + 8
    /\ fpos' = gps_offset + 8
    /\ UNCHANGED <<file, offset, atom_size, sub_offset, sub_atom_size, pc, gps_base,
                   gps_total, zero_hdr, read_after_zero, bad_hdr, read_after_bad>>

\* GpsEntry without get_gps_atom's "except struct.error": a record shorter than
\* the fields unpacked from it raises out of extract_gpx.
GpsEntryUncaught ==
    /\ UNCHANGED <<lvars, mvars>>
    /\ pc = "gps"
    /\ gps_offset < sub_offset + sub_atom_size
    /\ LET eight == Read(file, fpos, 8) IN
       /\ ~get_gps_atom_info_raises(eight)
       /\ LET info == get_gps_atom_info(eight)
              data == Read(file, info.pos, info.size)
          IN  IF info.size <= MaxAtomSize /\ Len(data) < 3
              THEN /\ pc' = "raised"
                   /\ UNCHANGED gps_data
              ELSE /\ pc' = pc
                   /\ gps_data' = Append(gps_data, get_gps_atom(info, file))
    /\ idx_outside' = (idx_outside \/ gps_offset + 8 > MoovEnd)
    /\ gps_offset' = gps_offset + 8
    /\ fpos' = gps_offset + 8
    /\ UNCHANGED <<file, offset, atom_size, sub_offset, sub_atom_size, gps_base,
                   gps_total, zero_hdr, read_after_zero, bad_hdr, read_after_bad>>

\* Lines 138-142: one index entry is read, decoded and its slot appended.
GpsEntry ==
    /\ UNCHANGED <<lvars, mvars>>
    /\ pc = "gps"
    /\ gps_offset < sub_offset + sub_atom_size
    /\ LET eight == Read(file, fpos, 8) IN
       /\ ~get_gps_atom_info_raises(eight)
       /\ gps_data' = Append(gps_data, get_gps_atom(get_gps_atom_info(eight), file))
    /\ idx_outside' = (idx_outside \/ gps_offset + 8 > MoovEnd)
    /\ gps_offset' = gps_offset + 8
    /\ fpos' = gps_offset + 8
    /\ UNCHANGED <<file, offset, atom_size, sub_offset, sub_atom_size, pc, gps_base,
                   gps_total, zero_hdr, read_after_zero, bad_hdr, read_after_bad>>

\* Lines 139, 55: the index entry is cut short by the end of the file, and the
\* struct.error of get_gps_atom_info leaves extract_gpx.
GpsShortRead ==
    /\ UNCHANGED <<lvars, mvars>>
    /\ pc = "gps"
    /\ gps_offset < sub_offset + sub_atom_size
    /\ get_gps_atom_info_raises(Read(file, fpos, 8))
    /\ pc' = "raised"
    /\ fpos' = fpos + 4 * Len(Read(file, fpos, 8))
    /\ UNCHANGED <<file, offset, atom_size, sub_offset, sub_atom_size, gps_offset,
                   gps_data, gps_base, gps_total, zero_hdr, read_after_zero,
                   bad_hdr, read_after_bad, idx_outside>>

\* Lines 138, 144-145: the index loop ends.
GpsExit ==
    /\ UNCHANGED <<lvars, mvars>>
    /\ pc = "gps"
    /\ ~(gps_offset < sub_offset + sub_atom_size)
    /\ pc' = "sub"
    /\ sub_offset' = sub_offset + sub_atom_size
    /\ fpos' = sub_offset + sub_atom_size
    /\ UNCHANGED <<file, offset, atom_size, sub_atom_size, gps_offset, gps_data,
                   gps_base, gps_total, zero_hdr, read_after_zero, bad_hdr,
                   read_after_bad, idx_outside>>

Next == TopRead \/ SubRead \/ MoovExit \/ GpsEntry \/ GpsShortRead \/ GpsExit

Spec == Init /\ [][Next]_vars

\* Every offset the walker reads at is word-aligned or past the end of the file.
AlignedInv ==
    /\ fpos % 4 = 0 \/ fpos >= FileBytes(file)
    /\ pc = "gps" /\ gps_offset < sub_offset + sub_atom_size
         /\ ~get_gps_atom_info_raises(Read(file, fpos, 8))
       => LET info == get_gps_atom_info(Read(file, fpos, 8)) IN
          \/ info.size > MaxAtomSize
          \/ info.pos >= FileBytes(file)
          \/ info.pos % 4 = 0 /\ info.size % 4 = 0

(***************************************************************************)
(* Properties of extract_gpx (Spec).                                       *)
(***************************************************************************)
\* The index entry at place j (from 0) of the 'gps ' box being walked.
IndexEntry(j) == get_gps_atom_info(Read(file, sub_offset + 16 + 8 * j, 8))

\* Index entries of the box consumed so far.
EntriesRead == (gps_offset - (sub_offset + 16)) \div 8

\* The slot appended for entry j of the box being walked.
SlotOf(j) == gps_data[gps_base + j + 1]

\* C1: the track holds one slot per index entry of a 'gps ' box, in index order,
\* whether the entry decoded to a sample or was rejected: while a box is walked
\* the slots appended for it are exactly the decodings of the entries read so
\* far, when its walk ends their number is the number of entries in the box's
\* declared extent, and the track returned has one slot per such entry.
C1_OneSlotPerIndexEntry ==
    /\ pc = "gps" =>
         /\ Len(gps_data) = gps_base + EntriesRead
         /\ \A j \in 0..(EntriesRead - 1) : SlotOf(j) = get_gps_atom(IndexEntry(j), file)
         /\ ~(gps_offset < sub_offset + sub_atom_size)
              => EntriesRead = EntriesInExtent(sub_atom_size)
    /\ pc = "done" => Len(gps_data) = gps_total

\* A track is returned whose box had MaxEntries entries, a decoded one and a
\* rejected one among them.
C1_Witness ==
    /\ pc = "done"
    /\ gps_total = MaxEntries
    /\ Len(gps_data) = MaxEntries
    /\ \E i, j \in 1..Len(gps_data) : gps_data[i] = None /\ gps_data[j] # None

\* The ways a record fails get_gps_atom's validation: data too short, self_size
\* differing from the index byte_size, a type tag other than 'free', a magic
\* other than 'GPS ', calendar fields out of range.
RecordFails(info) ==
    LET data == Read(file, info.pos, info.size) IN
    \/ Len(data) < 15
    \/ BE32(data[1]) # info.size
    \/ data[2] # TagFree
    \/ data[3] # MagicGPS
    \/ ~fix_time_ok(LE32(data[5]), LE32(data[6]), LE32(data[7]),
                    LE32(data[8]), LE32(data[9]), LE32(data[10]))

\* C2: a record that fails validation leaves None in its own slot and raises
\* nothing (the only exception leaving the index loop is a short read of an
\* index entry), and every index entry after it still gets its slot, decoded
\* from its own record.
C2_FailedRecordIsLocal ==
    /\ pc = "gps" =>
         \A i \in 0..(EntriesRead - 1) :
            RecordFails(IndexEntry(i)) =>
              /\ SlotOf(i) = None
              /\ \A j \in (i + 1)..(EntriesRead - 1) :
                    /\ gps_base + j + 1 <= Len(gps_data)
                    /\ SlotOf(j) = get_gps_atom(IndexEntry(j), file)
              /\ ~(gps_offset < sub_offset + sub_atom_size)
                   => Len(gps_data) = gps_base + EntriesInExtent(sub_atom_size)
    /\ pc = "raised" => get_gps_atom_info_raises(Read(file, gps_offset, 8))

\* The first record of a box failed validation and the entry after it decoded
\* to a sample.
C2_Witness ==
    /\ pc = "gps"
    /\ EntriesRead = 2
    /\ RecordFails(IndexEntry(0))
    /\ Len(gps_data) = gps_base + 2
    /\ SlotOf(0) = None
    /\ SlotOf(1) # None

\* C3: no exception leaves extract_gpx; every run ends by returning a track.
C3_NoExceptionEscapes == pc # "raised"

\* C4: once a header of size 0 has been read in a region, no further header is
\* read from that region.
C4_ZeroSizeEndsRegion == ~read_after_zero

\* C5: once a header inside moov declares a size below 8 or past the end of
\* moov, no further header is read from moov and no index entry is read from
\* bytes past the end of moov.
C5_StructuralErrorEndsRegion == ~read_after_bad /\ ~idx_outside

(***************************************************************************)
(* extract_photos: arithmetic on the rationals that stand for floats.      *)
(***************************************************************************)
RInt(k) == [n |-> k, d |-> 1]

\* The least common denominator of two rationals.
LCD(a, b) == (a.d \div GCD(a.d, b.d)) * b.d

\* The numerator of a over the denominator l, a multiple of a.d.
Over(a, l) == a.n * (l \div a.d)

RAdd(a, b) == LET l == LCD(a, b) IN Rat(Over(a, l) + Over(b, l), l)

RSub(a, b) == LET l == LCD(a, b) IN Rat(Over(a, l) - Over(b, l), l)

RMul(a, b) == Rat(a.n * b.n, a.d * b.d)

RLe(a, b) == LET l == LCD(a, b) IN Over(a, l) <= Over(b, l)

RLt(a, b) == LET l == LCD(a, b) IN Over(a, l) < Over(b, l)

\* Python's a % m for a positive integer m: the result lies in [0, m).
RMod(a, m) == Rat(a.n % (m * a.d), a.d)

\* n / d rounded to the nearest integer, ties to the even one (d > 0), as
\* datetime.timedelta rounds a float number of seconds to microseconds.
RoundHalfEven(n, d) ==
    LET q == n \div d
        r == n % d
    IN  IF 2 * r < d THEN q
        ELSE IF 2 * r > d THEN q + 1
        ELSE IF q % 2 = 0 THEN q ELSE q + 1

(***************************************************************************)
(* extract_photos: lerp, lerp_point, set_gps_location.                     *)
(***************************************************************************)
lerp(from_val, to_val, ratio) ==
    LET delta_val == RSub(to_val, from_val)
    IN  RAdd(to_val, RMul(delta_val, ratio))

\* lerp_time with the interpolation anchored at pt2 instead of pt1.
lerp_time_from_next(pt1, pt2, ratio) ==
    LET dt_us == (pt2.time.sec - pt1.time.sec) * 1000000 + (pt2.time.us - pt1.time.us)
        total == pt2.time.us + RoundHalfEven(dt_us * ratio.n, ratio.d)
    IN  [sec |-> pt2.time.sec + total \div 1000000, us |-> total % 1000000]

\* Lines 88-89: dt = (pt2.time - pt1.time).total_seconds();
\* new_time = pt1.time + timedelta(seconds=dt * ratio).
lerp_time(pt1, pt2, ratio) ==
    LET dt_us == (pt2.time.sec - pt1.time.sec) * 1000000 + (pt2.time.us - pt1.time.us)
        total == pt1.time.us + RoundHalfEven(dt_us * ratio.n, ratio.d)
    IN  [sec |-> pt1.time.sec + total \div 1000000, us |-> total % 1000000]

\* Lines 93-94; in Python % binds tighter than +.
lerp_bearing(pt1, pt2, ratio) ==
    LET shortest_angle ==
            RSub(RMod(RAdd(RSub(pt1.bearing, pt2.bearing), RInt(180)), 360), RInt(180))
    IN  RAdd(pt1.bearing, RMod(RMul(shortest_angle, ratio), 360))

lerp_point(pt1, pt2, ratio) ==
    [time    |-> lerp_time(pt1, pt2, ratio),
     lat     |-> lerp(pt1.lat, pt2.lat, ratio),
     lon     |-> lerp(pt1.lon, pt2.lon, ratio),
     speed   |-> lerp(pt1.speed, pt2.speed, ratio),
     bearing |-> lerp_bearing(pt1, pt2, ratio)]

\* set_gps_location, lines 70-72: the GPSImgDirection rational, absent for a
\* bearing of exactly 0.
GPSImgDirection(bearing) ==
    IF bearing.n = 0 THEN None
    ELSE LET b == RMod(bearing, 360) IN Some(<<(b.n * 100) \div b.d, 100>>)

(***************************************************************************)
(* LerpSpec: lerp_point on samples as get_gps_atom produces them.          *)
(***************************************************************************)
\* 2020-02-29 12:30:00, the time of RecordWords(0).
SampleTime(k) == [sec |-> fix_time(12, 30, 0, 20, 2, 29).sec + k, us |-> 0]

LerpPoints ==
    { [lat     |-> ll[1],
       lon     |-> ll[2],
       time    |-> SampleTime(k),
       speed   |-> sp,
       bearing |-> RInt(b)] :
        ll \in { <<Rat(75, 2), Rat(7, 4)>>, <<Rat(-149, 4), Rat(-211, 120)>> },
        k \in 0..2,
        sp \in { RInt(3), fix_speed(RInt(10)) },
        b \in { 0, 10, 90, 350 } }

LerpInit ==
    /\ WalkIdle
    /\ MainIdle
    /\ lp_pt1 \in LerpPoints
    /\ lp_pt2 \in LerpPoints
    /\ lp_fps \in 1..MaxFps
    /\ lp_step \in 0..(lp_fps - 1)
    /\ lp_out = <<>>
    /\ lp_dir = <<>>
    /\ lp_pc = "call"

\* main, lines 202-203: ratio = interpolation_step / args.fps, then lerp_point.
LerpCall ==
    /\ lp_pc = "call"
    /\ lp_out' = lerp_point(lp_pt1, lp_pt2, Rat(lp_step, lp_fps))
    /\ lp_pc' = "done"
    /\ UNCHANGED <<lp_pt1, lp_pt2, lp_step, lp_fps, lp_dir, wvars, mvars>>

\* set_gps_location, lines 70-72, on the interpolated bearing.
TagBearing ==
    /\ lp_pc = "done"
    /\ lp_dir' = GPSImgDirection(lp_out.bearing)
    /\ lp_pc' = "tagged"
    /\ UNCHANGED <<lp_pt1, lp_pt2, lp_step, lp_fps, lp_out, wvars, mvars>>

LerpNext == LerpCall \/ TagBearing

LerpSpec == LerpInit /\ [][LerpNext]_vars

(***************************************************************************)
(* Properties of lerp_point (LerpSpec).                                    *)
(***************************************************************************)
LerpDone == lp_pc \in {"done", "tagged"}

\* x lies between a and b, whichever of them is the larger.
RBetween(a, x, b) == (RLe(a, x) /\ RLe(x, b)) \/ (RLe(b, x) /\ RLe(x, a))

\* C6: for latitude, longitude and speed lerp_point returns prev's value at
\* ratio 0 and a value between prev's and next's for every ratio in [0, 1).
C6_ScalarsInterpolate ==
    LerpDone =>
      /\ lp_step = 0 =>
           /\ lp_out.lat = lp_pt1.lat
           /\ lp_out.lon = lp_pt1.lon
           /\ lp_out.speed = lp_pt1.speed
      /\ RBetween(lp_pt1.lat, lp_out.lat, lp_pt2.lat)
      /\ RBetween(lp_pt1.lon, lp_out.lon, lp_pt2.lon)
      /\ RBetween(lp_pt1.speed, lp_out.speed, lp_pt2.speed)

\* The angular distance of two bearings, in [0, 180].
AngDist(a, b) ==
    LET x == RMod(RSub(a, b), 360)
        y == RMod(RSub(b, a), 360)
    IN  IF RLe(x, y) THEN x ELSE y

\* Both bearings strictly inside (0, 360), less than 180 degrees apart, one on
\* each side of the 0/360 boundary.
Straddles(a, b) ==
    /\ RLt(RInt(0), a) /\ RLt(a, RInt(360))
    /\ RLt(RInt(0), b) /\ RLt(b, RInt(360))
    /\ RLt(AngDist(a, b), RInt(180))
    /\ RLt(RInt(180), RSub(a, b)) \/ RLt(RInt(180), RSub(b, a))

\* x lies on the shorter arc between a and b.
OnShortArc(x, a, b) == RAdd(AngDist(a, x), AngDist(x, b)) = AngDist(a, b)

\* C7: for bearings that straddle the 0/360 boundary the interpolated bearing,
\* taken modulo 360, lies on the short arc between them; from 350 to 10 at
\* ratio 1/2 it is 0, and then no GPSImgDirection other than 0 is written.
C7_BearingShortestPath ==
    LerpDone /\ Straddles(lp_pt1.bearing, lp_pt2.bearing) =>
      /\ OnShortArc(RMod(lp_out.bearing, 360), lp_pt1.bearing, lp_pt2.bearing)
      /\ lp_pt1.bearing = RInt(350) /\ lp_pt2.bearing = RInt(10) /\ 2 * lp_step = lp_fps
           => RMod(lp_out.bearing, 360) = RInt(0)

TimeLe(s, t) == s.sec < t.sec \/ (s.sec = t.sec /\ s.us <= t.us)

\* C8: when prev.time <= next.time the interpolated time lies between the two
\* (ends included) and is prev.time at ratio 0.
C8_TimeBetween ==
    LerpDone /\ TimeLe(lp_pt1.time, lp_pt2.time) =>
      /\ TimeLe(lp_pt1.time, lp_out.time)
      /\ TimeLe(lp_out.time, lp_pt2.time)
      /\ lp_step = 0 => lp_out.time = lp_pt1.time

\* A time strictly inside the interval, at a ratio the microseconds round.
C8_Witness ==
    /\ LerpDone
    /\ lp_pt1.time.sec < lp_pt2.time.sec
    /\ lp_step > 0
    /\ lp_out.time # lp_pt1.time
    /\ lp_out.time # lp_pt2.time
    /\ lp_out.time.us = 666667

(***************************************************************************)
(* MainSpec: main for one video file, from the track to the tagged frames. *)
(* is_light_out (ephem) and the geofence distance (haversine) are outside  *)
(* the repository: their outcomes are free choices.                        *)
(***************************************************************************)
MainPoints ==
    { [lat |-> Rat(75, 2), lon |-> Rat(7, 4), time |-> SampleTime(0),
       speed |-> Rat(9, 2), bearing |-> RInt(350)],
      [lat |-> Rat(149, 4), lon |-> Rat(-7, 4), time |-> SampleTime(1),
       speed |-> RInt(3), bearing |-> RInt(10)],
      [lat |-> Rat(149, 4), lon |-> Rat(-7, 4), time |-> SampleTime(2),
       speed |-> Rat(1, 4), bearing |-> RInt(0)] }

Slots == {None} \cup { Some(p) : p \in MainPoints }

Tracks == UNION { [1..n -> Slots] : n \in 0..MaxSlots }

\* Lines 165-168: the first of the samples with the latest time.
RECURSIVE LatestFrom(_, _, _)
LatestFrom(track, i, latest) ==
    IF i > Len(track) THEN latest
    ELSE IF track[i] # None
            /\ (latest = None \/ ~TimeLe(track[i][1].time, latest[1].time))
         THEN LatestFrom(track, i + 1, track[i])
         ELSE LatestFrom(track, i + 1, latest)

\* Lines 133-139.
has_movement(points) ==
    \E i \in 1..Len(points) : points[i] # None /\ RLt(Rat(1, 2), points[i][1].speed)

\* Lines 106-118; in_zone: some ignored point is closer than its radius.
ignore_frame(in_zone, point) == RLt(point.speed, RInt(4)) \/ in_zone

\* The slot the tagging loop is at (enumerate counts from 0).
gps_point == m_gps_data[gps_index + 1]

MainInit ==
    /\ WalkIdle
    /\ LerpIdle
    /\ m_gps_data \in Tracks
    /\ m_fps \in 1..MaxFps
    /\ m_pc = "select"
    /\ latest_point = None
    /\ current_frame = 0
    /\ prev_gps_point = None
    /\ gps_index = 0
    /\ interpolation_step = 0
    /\ last_frame = <<>>

\* Lines 165-172: no sample in the track.
SkipNoData ==
    /\ m_pc = "select"
    /\ LatestFrom(m_gps_data, 1, None) = None
    /\ m_pc' = "skip_no_data"
    /\ UNCHANGED <<m_gps_data, m_fps, latest_point, current_frame, prev_gps_point,
                   gps_index, interpolation_step, last_frame, wvars, lvars>>

\* Lines 174-176: the sun is down at the latest sample.
SkipDark ==
    /\ m_pc = "select"
    /\ LatestFrom(m_gps_data, 1, None) # None
    /\ latest_point' = LatestFrom(m_gps_data, 1, None)
    /\ m_pc' = "skip_dark"
    /\ UNCHANGED <<m_gps_data, m_fps, current_frame, prev_gps_point, gps_index,
                   interpolation_step, last_frame, wvars, lvars>>

\* Lines 178-180: daylight, and no sample faster than 0.5.
SkipNoMovement ==
    /\ m_pc = "select"
    /\ LatestFrom(m_gps_data, 1, None) # None
    /\ ~has_movement(m_gps_data)
    /\ latest_point' = LatestFrom(m_gps_data, 1, None)
    /\ m_pc' = "skip_no_movement"
    /\ UNCHANGED <<m_gps_data, m_fps, current_frame, prev_gps_point, gps_index,
                   interpolation_step, last_frame, wvars, lvars>>

\* Lines 182-192: the frames are generated and the tagging loop starts.
StartLoop ==
    /\ m_pc = "select"
    /\ LatestFrom(m_gps_data, 1, None) # None
    /\ has_movement(m_gps_data)
    /\ latest_point' = LatestFrom(m_gps_data, 1, None)
    /\ current_frame' = 1
    /\ prev_gps_point' = None
    /\ gps_index' = 0
    /\ m_pc' = "loop"
    /\ UNCHANGED <<m_gps_data, m_fps, interpolation_step, last_frame, wvars, lvars>>

\* EmptySlot with the frames of an empty slot left unconsumed.
EmptySlotNoAdvance ==
    /\ m_pc = "loop"
    /\ gps_index < Len(m_gps_data)
    /\ gps_point = None
    /\ gps_index' = gps_index + 1
    /\ UNCHANGED <<m_gps_data, m_fps, m_pc, latest_point, current_frame,
                   prev_gps_point, interpolation_step, last_frame, wvars, lvars>>

\* Lines 193-195: an empty slot.
EmptySlot ==
    /\ m_pc = "loop"
    /\ gps_index < Len(m_gps_data)
    /\ gps_point = None
    /\ current_frame' = current_frame + m_fps
    /\ gps_index' = gps_index + 1
    /\ UNCHANGED <<m_gps_data, m_fps, m_pc, latest_point, prev_gps_point,
                   interpolation_step, last_frame, wvars, lvars>>

\* SlotBegin with the missing prev taken from latest_point.
SlotBeginFromLatest ==
    /\ m_pc = "loop"
    /\ gps_index < Len(m_gps_data)
    /\ gps_point # None
    /\ prev_gps_point' = IF prev_gps_point = None THEN latest_point ELSE prev_gps_point
    /\ interpolation_step' = 0
    /\ m_pc' = "frames"
    /\ UNCHANGED <<m_gps_data, m_fps, latest_point, current_frame, gps_index,
                   last_frame, wvars, lvars>>

\* Lines 197-200: a slot with a sample; the first one stands in for prev.
SlotBegin ==
    /\ m_pc = "loop"
    /\ gps_index < Len(m_gps_data)
    /\ gps_point # None
    /\ prev_gps_point' = IF prev_gps_point = None THEN gps_point ELSE prev_gps_point
    /\ interpolation_step' = 0
    /\ m_pc' = "frames"
    /\ UNCHANGED <<m_gps_data, m_fps, latest_point, current_frame, gps_index,
                   last_frame, wvars, lvars>>

\* Lines 200-219: one interpolated frame, tagged and renamed unless ignored.
Frame ==
    /\ m_pc = "frames"
    /\ interpolation_step < m_fps
    /\ \E in_zone \in BOOLEAN :
         LET ratio == Rat(interpolation_step, m_fps)
             interpolated_point == lerp_point(prev_gps_point[1], gps_point[1], ratio)
         IN  last_frame' = Some([frame  |-> current_frame,
                                 slot   |-> gps_index,
                                 step   |-> interpolation_step,
                                 point  |-> interpolated_point,
                                 tagged |-> ~ignore_frame(in_zone, interpolated_point)])
    /\ current_frame' = current_frame + 1
    /\ interpolation_step' = interpolation_step + 1
    /\ UNCHANGED <<m_gps_data, m_fps, m_pc, latest_point, prev_gps_point, gps_index,
                   wvars, lvars>>

\* Line 221: the slot's frames are done.
SlotEnd ==
    /\ m_pc = "frames"
    /\ ~(interpolation_step < m_fps)
    /\ prev_gps_point' = gps_point
    /\ gps_index' = gps_index + 1
    /\ m_pc' = "loop"
    /\ UNCHANGED <<m_gps_data, m_fps, latest_point, current_frame, interpolation_step,
                   last_frame, wvars, lvars>>

\* Line 192: the track is exhausted.
LoopEnd ==
    /\ m_pc = "loop"
    /\ ~(gps_index < Len(m_gps_data))
    /\ m_pc' = "done"
    /\ UNCHANGED <<m_gps_data, m_fps, latest_point, current_frame, prev_gps_point,
                   gps_index, interpolation_step, last_frame, wvars, lvars>>

MainNext ==
    \/ SkipNoData \/ SkipDark \/ SkipNoMovement \/ StartLoop
    \/ EmptySlot \/ SlotBegin \/ Frame \/ SlotEnd \/ LoopEnd

MainSpec == MainInit /\ [][MainNext]_vars

(***************************************************************************)
(* Properties of the tagging loop (MainSpec).                              *)
(***************************************************************************)
\* Slot i (from 0) holds the first sample of the track.
FirstSample(i) ==
    /\ m_gps_data[i + 1] # None
    /\ \A j \in 1..i : m_gps_data[j] = None

\* C9: when the track begins with empty slots, every frame of the first slot
\* that holds a sample is given exactly that sample (latitude, longitude,
\* speed, time and bearing), whatever the ratio.
C9_LeadingGapUsesFirstSample ==
    last_frame # <<>> /\ m_gps_data[1] = None /\ FirstSample(last_frame[1].slot)
        => last_frame[1].point = m_gps_data[last_frame[1].slot + 1][1]

\* A frame at a ratio above 0 of the first sample, which follows a gap.
C9_Witness ==
    /\ last_frame # <<>>
    /\ m_gps_data[1] = None
    /\ FirstSample(last_frame[1].slot)
    /\ last_frame[1].step > 0
    /\ last_frame[1].point = m_gps_data[last_frame[1].slot + 1][1]

\* C10: every slot consumes exactly fps frame numbers: the frame handled for
\* slot i at step k is number 1 + i*fps + k, each pass of the loop starts at
\* frame 1 + fps * (slots passed), and after the loop current_frame is
\* 1 + fps * (number of slots).
C10_FramesPerSlot ==
    /\ last_frame # <<>> =>
         last_frame[1].frame = 1 + last_frame[1].slot * m_fps + last_frame[1].step
    /\ m_pc = "frames" => current_frame = 1 + gps_index * m_fps + interpolation_step
    /\ m_pc = "loop" => current_frame = 1 + gps_index * m_fps
    /\ m_pc = "done" => current_frame = 1 + m_fps * Len(m_gps_data)

\* The loop is over for a track with an empty slot in the middle, after a tagged
\* slot and before a slot whose last frame was rejected by ignore_frame.
C10_Witness ==
    /\ m_pc = "done"
    /\ m_fps > 1
    /\ Len(m_gps_data) = 3
    /\ m_gps_data[1] # None
    /\ m_gps_data[2] = None
    /\ m_gps_data[3] # None
    /\ last_frame # <<>>
    /\ ~last_frame[1].tagged
    /\ last_frame[1].frame = 3 * m_fps

====
